---- MODULE Spec2Model ----
(***************************************************************************)
(* Model of teller's HTTP front door (src/src/teller/http.go):             *)
(*   - HTTPConfig.Validate                                                 *)
(*   - httpServer.Run / httpServer.Shutdown and the listener goroutines    *)
(*   - BindHandler / StatusHandler and their helpers                       *)
(*   - the security middleware options and the rate limiter wiring         *)
(* The lifecycle part (Spec, FairSpec) interleaves the statements of Run,  *)
(* Shutdown and the listener goroutines, SeqSpec runs the same statements  *)
(* for calls that do not overlap; the handler part (HandlerSpec) runs one  *)
(* request through a handler statement by statement; the startup part      *)
(* (StartSpec) validates a configuration and builds the middleware options *)
(* from it; the rate limiter part (LimSpec) follows the requests of the    *)
(* clients of one API route.                                               *)
(***************************************************************************)
EXTENDS Integers, Sequences, FiniteSets, TLC

\* ------------------------------------------------------------------ bounds
\* Number of Run()/Shutdown() cycles a behaviour may go through.
MaxCycles == 2
\* The clock of the handler part runs over 0..MaxTime.
MaxTime == 2
\* Throttle.Max ranges over 1..MaxThrottle, Throttle.Duration over
\* 1..MaxWindow clock ticks; a behaviour of the rate limiter has at most
\* MaxReqs requests.
MaxThrottle == 2
MaxWindow == 2
MaxReqs == 4

\* --------------------------------------------------------------- variables
VARIABLES
    cfg,            \* hs.Config (HTTPConfig), immutable after construction
    quit,           \* hs.quit: 0 is nil, g > 0 is the channel gates[g]
    gates,          \* every channel made by line 112: "open" or "closed"
    httpListener,   \* hs.httpListener: 0 is nil, s > 0 is the server srvShut[s]
    httpsListener,  \* hs.httpsListener
    srvShut,        \* per http.Server made: has Server.Shutdown been called
    cycle,          \* number of Run() invocations so far
    rpc,            \* position of the thread inside Run()
    rsrv,           \* the server the Run thread itself serves on (single mode)
    rerr,           \* the err handed to handleListenErr's f() result
    qsel,           \* hs.quit as evaluated on entry of the select of line 223
    runErr,         \* what Run() returned (meaningful when rpc = "returned")
    spc,            \* position of the thread inside Shutdown()
    sdWhen,         \* when Shutdown() was invoked in this cycle
    tasks,          \* the listener goroutines of lines 200-214, per cycle
    doneC,          \* per cycle: has the goroutine of line 218 closed done
    panicked,       \* a close of a nil or closed channel happened
    drained,        \* what the running Shutdown() drained so far, in order,
                    \* and whether ln.Shutdown(ctx) returned an error
    \* ---- handler part
    hpc,            \* position inside the handler
    req,            \* the request being handled
    now,            \* the clock
    startAt,        \* hs.Config.StartAt
    bindReq,        \* the decoded bindRequest
    w,              \* the ResponseWriter: status, headers, bodies written
    calls,          \* calls made to the external service
    svcRes,         \* what the external service returned
    tRead,          \* the time readyToStart read (-1: not read)
    \* ---- startup part
    vpc,            \* position in the startup: Validate, then Run's lines 116-143
    validateErr,    \* what Config.Validate() returned ("" is nil)
    allowedHosts,   \* Run's local allowedHosts (a sequence of hosts)
    sslHost,        \* Run's local sslHost
    secureOpts,     \* the secure.Options configureSecureMiddleware built
    \* ---- rate limiter part
    thr,            \* hs.Config.Throttle
    lnow,           \* the clock of the rate limiter part
    buckets,        \* per client: the tokens left, in units of 1/Duration
    hist            \* the requests made so far and what became of them

lifeVars == <<cfg, quit, gates, httpListener, httpsListener, srvShut, cycle,
              rpc, rsrv, rerr, qsel, runErr, spc, sdWhen, tasks, doneC,
              panicked, drained>>
handlerVars == <<hpc, req, now, startAt, bindReq, w, calls, svcRes, tRead>>
startVars == <<vpc, validateErr, allowedHosts, sslHost, secureOpts>>
limVars == <<thr, lnow, buckets, hist>>
vars == <<lifeVars, handlerVars, startVars, limVars>>

\* ------------------------------------------------------------------ config
\* Field values: the empty string or one representative non-empty value.
HTTPAddrs == {"", ":7071"}
HTTPSAddrs == {"", ":7072"}
AutoTLSHosts == {"", "teller.example"}
TLSCerts == {"", "cert.pem"}
TLSKeys == {"", "key.pem"}

Configs == [HTTPAddr : HTTPAddrs, HTTPSAddr : HTTPSAddrs,
            AutoTLSHost : AutoTLSHosts, TLSCert : TLSCerts, TLSKey : TLSKeys]

\* HTTPConfig.Validate: "" is nil, otherwise the error text (abbreviated).
Validate_AddressOnly(c) ==
    IF c.HTTPAddr = "" /\ c.HTTPSAddr = ""
    THEN "at least one of -http-service-addr, -https-service-addr must be set"
    ELSE ""
Validate(c) ==
    IF c.HTTPAddr = "" /\ c.HTTPSAddr = ""
    THEN "at least one of -http-service-addr, -https-service-addr must be set"
    ELSE IF c.HTTPSAddr # "" /\ c.AutoTLSHost = "" /\ (c.TLSCert = "" \/ c.TLSKey = "")
    THEN "when using -tls, either -auto-tls-host or both -tls-cert and -tls-key must be set"
    ELSE IF (c.TLSCert = "" /\ c.TLSKey # "") \/ (c.TLSCert # "" /\ c.TLSKey = "")
    THEN "-tls-cert and -tls-key must be set or unset together"
    ELSE IF c.AutoTLSHost # "" /\ (c.TLSKey # "" \/ c.TLSCert # "")
    THEN "either use -auto-tls-host or both -tls-key and -tls-cert"
    ELSE IF c.HTTPSAddr = "" /\ (c.AutoTLSHost # "" \/ c.TLSKey # "" \/ c.TLSCert # "")
    THEN "-auto-tls-host or -tls-key or -tls-cert is set but -tls is not enabled"
    ELSE ""

ValidConfigs == {c \in Configs : Validate(c) = ""}

\* The configurations the startup part is given: every combination of empty
\* and non-empty fields, with two different non-empty values of the fields
\* Run() copies into the security middleware.
AllConfigs ==
    [HTTPAddr : HTTPAddrs, HTTPSAddr : HTTPSAddrs \cup {"0.0.0.0:443"},
     AutoTLSHost : AutoTLSHosts \cup {"www.teller.example"},
     TLSCert : TLSCerts, TLSKey : TLSKeys]

HasHTTP == cfg.HTTPAddr # ""
HasHTTPS == cfg.HTTPSAddr # ""
BothMode == HasHTTP /\ HasHTTPS

\* ------------------------------------------------------------------ errors
Protos == {"https", "http"}
Cycles == 1..MaxCycles

\* An error value.  kind: "nil", "listen" (the listener failed, e.g. could
\* not bind) or "closed" (http.ErrServerClosed).  proto: the listener it came
\* from.  late: whether Shutdown() had already closed the gate of the cycle
\* when the listener reported it (history only, never read by the program).
\* wrapped: whether line 156 wrapped it in "http serve failed: %v".
NilErr == [kind |-> "nil", proto |-> "-", late |-> FALSE, wrapped |-> FALSE]
MkErr(k, p, l) == [kind |-> k, proto |-> p, late |-> l, wrapped |-> FALSE]
Wrap(e) == [e EXCEPT !.wrapped = TRUE]

ShutdownCalled == spc # "idle"
\* The gate made by the Run() of the current cycle has been closed (every
\* Run() makes exactly one gate, so the gate of cycle c is gates[c]).
GateClosed == cycle >= 1 /\ Len(gates) >= cycle /\ gates[cycle] = "closed"

\* No request is being handled (the lifecycle part leaves the handlers out).
HIdle == /\ hpc = "off"
         /\ req = [handler |-> "none"]
         /\ now = 0
         /\ startAt = 0
         /\ bindReq = [SkyAddr |-> "", CoinType |-> "", isNil |-> FALSE]
         /\ w = [status |-> 0, allow |-> "", bodies |-> <<>>]
         /\ calls = <<>>
         /\ svcRes = [err |-> "", addr |-> "", statuses |-> <<>>]
         /\ tRead = -1

\* ------------------------------------------------------------------- Init
NoTask == [pc |-> "unborn", srv |-> 0, err |-> NilErr]

\* The startup part is left out of the lifecycle and the handler parts: the
\* configuration they start from has passed Validate.
SIdle == /\ vpc = "off"
         /\ validateErr = ""
         /\ allowedHosts = <<>>
         /\ sslHost = ""
         /\ secureOpts = [AllowedHosts |-> <<>>, SSLRedirect |-> FALSE,
                          SSLHost |-> ""]

\* The rate limiter part is left out of the other parts.
Clients == {"10.0.0.1", "10.0.0.2"}
LIdle == /\ thr = [Max |-> 1, Duration |-> 1]
         /\ lnow = 0
         /\ buckets = [c \in Clients |-> 0]
         /\ hist = <<>>

\* newHTTPServer (lines 95-104): no gate, no listeners.
LifeIdle ==
    /\ quit = 0
    /\ gates = <<>>
    /\ httpListener = 0
    /\ httpsListener = 0
    /\ srvShut = <<>>
    /\ cycle = 0
    /\ rpc = "idle"
    /\ rsrv = 0
    /\ rerr = NilErr
    /\ qsel = 0
    /\ runErr = NilErr
    /\ spc = "idle"
    /\ sdWhen = "none"
    /\ tasks = [c \in Cycles |-> [p \in Protos |-> NoTask]]
    /\ doneC = [c \in Cycles |-> FALSE]
    /\ panicked = FALSE
    /\ drained = <<>>

LifeInit ==
    /\ cfg \in ValidConfigs
    /\ LifeIdle

Init == LifeInit /\ HIdle /\ SIdle /\ LIdle

\* -------------------------------------------------------------------- Run
\* A goroutine of an earlier Run() that can still take a step by itself.
\* Such a goroutine only reads the fields of hs and writes nothing Run(),
\* Shutdown() or the goroutines of another cycle read (its errC and wg are
\* locals of its own Run()).
TaskRunnable(c, p) ==
    \/ tasks[c][p].pc = "spawned"
    \/ tasks[c][p].pc = "serving" /\ srvShut[tasks[c][p].srv]

\* The goroutines of earlier cycles when a new Run() starts.  The error a
\* goroutine is left holding is a local of it that nothing receives any more
\* (its errC belongs to a Run() that has returned): it is dropped.
StaleTasks ==
    [c \in Cycles |-> [p \in Protos |-> [tasks[c][p] EXCEPT !.err = NilErr]]]

\* The caller invokes Run(): only when the previous cycle is over, i.e. the
\* previous Run() has returned, the Shutdown() of that cycle has completed,
\* and the goroutines of that Run() have run as far as they can.
Run_Invoke ==
    /\ cycle < MaxCycles
    /\ \/ rpc = "idle"
       \/ rpc = "returned" /\ spc = "done"
    /\ \A c \in Cycles, p \in Protos : ~TaskRunnable(c, p)
    /\ cycle' = cycle + 1
    /\ rpc' = "l112"
    /\ spc' = "idle"
    /\ sdWhen' = "none"
    /\ rerr' = NilErr
    /\ runErr' = NilErr
    /\ rsrv' = 0
    /\ qsel' = 0
    /\ drained' = <<>>
    /\ tasks' = StaleTasks
    /\ UNCHANGED <<cfg, quit, gates, httpListener, httpsListener, srvShut,
                   doneC, panicked, handlerVars, startVars, limVars>>

\* The caller invokes Run() in a sequence of calls that do not overlap: no
\* call of Run() or Shutdown() is in progress.
Seq_Run_Invoke ==
    /\ cycle < MaxCycles
    /\ rpc \in {"idle", "returned"}
    /\ spc \in {"idle", "done"}
    /\ \A c \in Cycles, p \in Protos : ~TaskRunnable(c, p)
    /\ cycle' = cycle + 1
    /\ rpc' = "l112"
    /\ spc' = "idle"
    /\ sdWhen' = "none"
    /\ rerr' = NilErr
    /\ runErr' = NilErr
    /\ rsrv' = 0
    /\ qsel' = 0
    /\ drained' = <<>>
    /\ tasks' = StaleTasks
    /\ UNCHANGED <<cfg, quit, gates, httpListener, httpsListener, srvShut,
                   doneC, panicked, handlerVars, startVars, limVars>>

\* line 112: hs.quit = make(chan struct{})
Run_MakeQuit ==
    /\ rpc = "l112"
    /\ gates' = Append(gates, "open")
    /\ quit' = Len(gates) + 1
    /\ rpc' = "l145"
    /\ UNCHANGED <<cfg, httpListener, httpsListener, srvShut, cycle, rsrv,
                   rerr, qsel, runErr, spc, sdWhen, tasks, doneC, panicked,
                   drained, handlerVars, startVars, limVars>>

\* lines 145-147: if hs.Config.HTTPAddr != "" { hs.httpListener = setupHTTPListener(..) }
Run_SetupHTTP ==
    /\ rpc = "l145"
    /\ IF HasHTTP
       THEN /\ srvShut' = Append(srvShut, FALSE)
            /\ httpListener' = Len(srvShut) + 1
       ELSE UNCHANGED <<srvShut, httpListener>>
    /\ rpc' = "l162"
    /\ UNCHANGED <<cfg, quit, gates, httpsListener, cycle, rsrv, rerr, qsel,
                   runErr, spc, sdWhen, tasks, doneC, panicked, drained,
                   handlerVars, startVars, limVars>>

\* lines 162-221 and 234: the HTTPS listener is made when configured, then
\* the mode decides: HTTPS only (line 192), both (the goroutines of lines
\* 200-221 are started), HTTP only (line 234).
Run_SetupHTTPS ==
    /\ rpc = "l162"
    /\ IF HasHTTPS
       THEN /\ srvShut' = Append(srvShut, FALSE)
            /\ httpsListener' = Len(srvShut) + 1
       ELSE UNCHANGED <<srvShut, httpsListener>>
    /\ IF BothMode
       THEN /\ tasks' = [tasks EXCEPT ![cycle] =
                            [p \in Protos |-> [NoTask EXCEPT !.pc = "spawned"]]]
            /\ rpc' = "l223"
       ELSE /\ rpc' = "listen"
            /\ UNCHANGED tasks
    /\ UNCHANGED <<cfg, quit, gates, httpListener, cycle, rsrv, rerr, qsel,
                   runErr, spc, sdWhen, doneC, panicked, drained, handlerVars, startVars, limVars>>

\* The listener field a ListenAndServe[TLS] call of protocol p goes through.
ListenerOf(p) == IF p = "https" THEN httpsListener ELSE httpListener
SingleProto == IF HasHTTPS THEN "https" ELSE "http"

\* lines 193 / 235: the Run thread itself calls ListenAndServe[TLS] on the
\* listener field.  A server already shut down returns ErrServerClosed at once.
Run_Listen ==
    /\ rpc = "listen"
    /\ LET s == ListenerOf(SingleProto) IN
       IF srvShut[s]
       THEN /\ rerr' = MkErr("closed", SingleProto, GateClosed)
            /\ rpc' = "l150"
            /\ UNCHANGED rsrv
       ELSE /\ rsrv' = s
            /\ rpc' = "serving"
            /\ UNCHANGED rerr
    /\ UNCHANGED <<cfg, quit, gates, httpListener, httpsListener, srvShut,
                   cycle, qsel, runErr, spc, sdWhen, tasks, doneC, panicked,
                   drained, handlerVars, startVars, limVars>>

\* The blocked ListenAndServe[TLS] of the Run thread returns ErrServerClosed
\* once Server.Shutdown has been called on its server.
Run_ServeClosed ==
    /\ rpc = "serving"
    /\ srvShut[rsrv]
    /\ rerr' = MkErr("closed", SingleProto, GateClosed)
    /\ rpc' = "l150"
    /\ UNCHANGED <<cfg, quit, gates, httpListener, httpsListener, srvShut,
                   cycle, rsrv, qsel, runErr, spc, sdWhen, tasks, doneC,
                   panicked, drained, handlerVars, startVars, limVars>>

\* The listener of the Run thread fails (cannot bind, accept error).
Run_ServeFail ==
    /\ rpc = "serving"
    /\ rerr' = MkErr("listen", SingleProto, GateClosed)
    /\ rpc' = "l150"
    /\ UNCHANGED <<cfg, quit, gates, httpListener, httpsListener, srvShut,
                   cycle, rsrv, qsel, runErr, spc, sdWhen, tasks, doneC,
                   panicked, drained, handlerVars, startVars, limVars>>

\* A receive from channel q (lines 152, 226) is ready: q is a closed channel.
\* A receive from a nil channel is never ready.
QuitReady_Open(q) == q # 0
QuitReady(q) == q # 0 /\ gates[q] = "closed"

\* line 223: entering the select evaluates its channel operands, hs.quit
\* among them, once.
Run_SelectEnter ==
    /\ rpc = "l223"
    /\ qsel' = quit
    /\ rpc' = "select"
    /\ UNCHANGED <<cfg, quit, gates, httpListener, httpsListener, srvShut,
                   cycle, rsrv, rerr, runErr, spc, sdWhen, tasks, doneC,
                   panicked, drained, handlerVars, startVars, limVars>>

\* lines 223-230: one ready case of the select is taken.
\*   case err := <-errC: the rendezvous with a goroutine blocked in
\*       errC <- err (lines 204 / 212); the goroutine then runs wg.Done.
\*   case <-hs.quit:     the channel read at entry is closed.
\*   case <-done:        the goroutine of line 218 closed done.
Run_Select ==
    /\ rpc = "select"
    /\ \/ \E p \in Protos :
            /\ tasks[cycle][p].pc = "sending"
            /\ rerr' = tasks[cycle][p].err
            /\ tasks' = [tasks EXCEPT ![cycle][p].pc = "done"]
       \/ /\ QuitReady(qsel)
          /\ rerr' = NilErr
          /\ UNCHANGED tasks
       \/ /\ doneC[cycle]
          /\ rerr' = NilErr
          /\ UNCHANGED tasks
    /\ rpc' = "l150"
    /\ UNCHANGED <<cfg, quit, gates, httpListener, httpsListener, srvShut,
                   cycle, rsrv, qsel, runErr, spc, sdWhen, doneC, panicked,
                   drained, handlerVars, startVars, limVars>>

\* lines 149-160, handleListenErr on the result of f(): nil stays nil; an
\* error is dropped when hs.quit, as read now, is a closed channel (a receive
\* from a nil channel is never ready, so the default case runs), and is
\* wrapped and returned otherwise.
handleListenErr_Swallow(err, q) == NilErr
handleListenErr(err, q) ==
    IF err.kind # "nil"
    THEN IF QuitReady(q) THEN NilErr ELSE Wrap(err)
    ELSE NilErr

Run_Return ==
    /\ rpc = "l150"
    /\ runErr' = handleListenErr(rerr, quit)
    /\ rpc' = "returned"
    /\ UNCHANGED <<cfg, quit, gates, httpListener, httpsListener, srvShut,
                   cycle, rsrv, rerr, qsel, spc, sdWhen, tasks, doneC,
                   panicked, drained, handlerVars, startVars, limVars>>

\* ---------------------------------------------------- listener goroutines
\* lines 200-214, goroutine of protocol p started by the Run() of cycle c.
\* It calls hs.<p>Listener.ListenAndServe[TLS], reading the field when it
\* runs; an error is sent on errC (the send is the rendezvous of Run_Select).
Task_Listen(c, p) ==
    /\ tasks[c][p].pc = "spawned"
    /\ LET s == ListenerOf(p) IN
       IF srvShut[s]
       THEN tasks' = [tasks EXCEPT ![c][p] =
                [pc |-> "sending", srv |-> s,
                 err |-> MkErr("closed", p, GateClosed)]]
       ELSE tasks' = [tasks EXCEPT ![c][p] =
                [pc |-> "serving", srv |-> s, err |-> NilErr]]
    /\ UNCHANGED doneC

\* The blocked ListenAndServe[TLS] returns ErrServerClosed once
\* Server.Shutdown has been called on its server.
Task_ServeClosed(c, p) ==
    /\ tasks[c][p].pc = "serving"
    /\ srvShut[tasks[c][p].srv]
    /\ tasks' = [tasks EXCEPT ![c][p].pc = "sending",
                              ![c][p].err = MkErr("closed", p, GateClosed)]
    /\ UNCHANGED doneC

\* lines 218-221: wg.Wait() returns when both goroutines ran wg.Done, then
\* done is closed.  ListenAndServe[TLS] always returns a non-nil error and
\* errC is received from at most once, so at most one goroutine gets past
\* its send: this step is in the code and never enabled.
Task_WaitDone(c) ==
    /\ \A p \in Protos : tasks[c][p].pc = "done"
    /\ ~doneC[c]
    /\ doneC' = [doneC EXCEPT ![c] = TRUE]
    /\ UNCHANGED tasks

\* One step of a goroutine started by the Run() of cycle c.
Task_Step(c) ==
    /\ c \in 1..cycle
    /\ \/ \E p \in Protos : Task_Listen(c, p)
       \/ \E p \in Protos : Task_ServeClosed(c, p)
       \/ Task_WaitDone(c)
    /\ UNCHANGED <<cfg, quit, gates, httpListener, httpsListener, srvShut,
                   cycle, rpc, rsrv, rerr, qsel, runErr, spc, sdWhen,
                   panicked, drained, handlerVars, startVars, limVars>>

\* The listener served by goroutine p of cycle c fails (cannot bind, accept
\* error): ListenAndServe[TLS] returns that error.
Task_ServeFail(c, p) ==
    /\ c \in 1..cycle
    /\ tasks[c][p].pc = "serving"
    /\ tasks' = [tasks EXCEPT ![c][p].pc = "sending",
                              ![c][p].err = MkErr("listen", p, GateClosed)]
    /\ UNCHANGED <<cfg, quit, gates, httpListener, httpsListener, srvShut,
                   cycle, rpc, rsrv, rerr, qsel, runErr, spc, sdWhen, doneC,
                   panicked, drained, handlerVars, startVars, limVars>>

\* --------------------------------------------------------------- Shutdown
\* The caller invokes Shutdown(): once per cycle, with a prior or concurrent
\* Run().
Shutdown_Invoke ==
    /\ cycle >= 1
    /\ spc = "idle"
    /\ spc' = "l311"
    /\ sdWhen' = IF rpc = "returned" THEN "after" ELSE "during"
    /\ UNCHANGED <<cfg, quit, gates, httpListener, httpsListener, srvShut,
                   cycle, rpc, rsrv, rerr, qsel, runErr, tasks, doneC,
                   panicked, drained, handlerVars, startVars, limVars>>

\* The caller invokes Shutdown() in a sequence of calls that do not overlap,
\* any number of times, also before the first Run().  sdWhen tells whether
\* a gate was installed when it was called.
Seq_Shutdown_Invoke ==
    /\ rpc \in {"idle", "returned"}
    /\ spc \in {"idle", "done"}
    /\ spc' = "l311"
    /\ sdWhen' = IF quit = 0 THEN "nogate" ELSE "after"
    /\ UNCHANGED <<cfg, quit, gates, httpListener, httpsListener, srvShut,
                   cycle, rpc, rsrv, rerr, qsel, runErr, tasks, doneC,
                   panicked, drained, handlerVars, startVars, limVars>>

Shutdown_CheckQuit_NoNilCheck ==
    /\ spc = "l311"
    /\ spc' = "l312"
    /\ UNCHANGED <<cfg, quit, gates, httpListener, httpsListener, srvShut,
                   cycle, rpc, rsrv, rerr, qsel, runErr, sdWhen, tasks, doneC,
                   panicked, drained, handlerVars, startVars, limVars>>

\* line 311: if hs.quit != nil
Shutdown_CheckQuit ==
    /\ spc = "l311"
    /\ spc' = IF quit # 0 THEN "l312" ELSE "l333"
    /\ UNCHANGED <<cfg, quit, gates, httpListener, httpsListener, srvShut,
                   cycle, rpc, rsrv, rerr, qsel, runErr, sdWhen, tasks, doneC,
                   panicked, drained, handlerVars, startVars, limVars>>

\* line 312: close(hs.quit); closing a nil or a closed channel panics.
Shutdown_CloseQuit ==
    /\ spc = "l312"
    /\ IF quit # 0 /\ gates[quit] = "open"
       THEN /\ gates' = [gates EXCEPT ![quit] = "closed"]
            /\ UNCHANGED panicked
       ELSE /\ panicked' = TRUE
            /\ UNCHANGED gates
    /\ spc' = "l333"
    /\ UNCHANGED <<cfg, quit, httpListener, httpsListener, srvShut, cycle,
                   rpc, rsrv, rerr, qsel, runErr, sdWhen, tasks, doneC,
                   drained, handlerVars, startVars, limVars>>

\* lines 315-331, shutdown(proto, ln): nothing for a nil listener, otherwise
\* ln.Shutdown(ctx) with the 5 s timeout; its error is only logged.  The
\* server stops listening whether or not the drain ends with an error (the
\* timeout expired with connections still open).
shutdown(ln) ==
    IF ln = 0 THEN srvShut ELSE [srvShut EXCEPT ![ln] = TRUE]
\* What ln.Shutdown(ctx) may return: nil or an error.
DrainErrs == {FALSE, TRUE}
Drained(proto, ln, e) ==
    IF ln = 0 THEN drained ELSE Append(drained, [proto |-> proto, err |-> e])

Shutdown_DrainHTTP_StopOnErr ==
    /\ spc = "l333"
    /\ srvShut' = shutdown(httpListener)
    /\ \E e \in DrainErrs :
         /\ drained' = Drained("HTTP", httpListener, e)
         /\ spc' = IF httpListener # 0 /\ e THEN "l336" ELSE "l334"
    /\ UNCHANGED <<cfg, quit, gates, httpListener, httpsListener, cycle, rpc,
                   rsrv, rerr, qsel, runErr, sdWhen, tasks, doneC, panicked,
                   handlerVars, startVars, limVars>>

\* line 333: shutdown("HTTP", hs.httpListener)
Shutdown_DrainHTTP ==
    /\ spc = "l333"
    /\ srvShut' = shutdown(httpListener)
    /\ \E e \in DrainErrs : drained' = Drained("HTTP", httpListener, e)
    /\ spc' = "l334"
    /\ UNCHANGED <<cfg, quit, gates, httpListener, httpsListener, cycle, rpc,
                   rsrv, rerr, qsel, runErr, sdWhen, tasks, doneC, panicked,
                   handlerVars, startVars, limVars>>

\* line 334: shutdown("HTTPS", hs.httpsListener)
Shutdown_DrainHTTPS ==
    /\ spc = "l334"
    /\ srvShut' = shutdown(httpsListener)
    /\ \E e \in DrainErrs : drained' = Drained("HTTPS", httpsListener, e)
    /\ spc' = "l336"
    /\ UNCHANGED <<cfg, quit, gates, httpListener, httpsListener, cycle, rpc,
                   rsrv, rerr, qsel, runErr, sdWhen, tasks, doneC, panicked,
                   handlerVars, startVars, limVars>>

Shutdown_Reset_KeepQuit ==
    /\ spc = "l336"
    /\ spc' = "done"
    /\ drained' = <<>>
    /\ UNCHANGED <<cfg, quit, gates, httpListener, httpsListener, srvShut,
                   cycle, rpc, rsrv, rerr, qsel, runErr, sdWhen, tasks, doneC,
                   panicked, handlerVars, startVars, limVars>>

\* line 336: hs.quit = nil, and Shutdown() returns (it has no result).
Shutdown_Reset ==
    /\ spc = "l336"
    /\ quit' = 0
    /\ spc' = "done"
    /\ drained' = <<>>
    /\ UNCHANGED <<cfg, gates, httpListener, httpsListener, srvShut, cycle,
                   rpc, rsrv, rerr, qsel, runErr, sdWhen, tasks, doneC,
                   panicked, handlerVars, startVars, limVars>>

\* ------------------------------------------------------------- lifecycle
RunStep ==
    \/ Run_MakeQuit
    \/ Run_SetupHTTP
    \/ Run_SetupHTTPS
    \/ Run_Listen
    \/ Run_ServeClosed
    \/ Run_SelectEnter
    \/ Run_Select
    \/ Run_Return

ShutdownStep ==
    \/ Shutdown_CheckQuit
    \/ Shutdown_CloseQuit
    \/ Shutdown_DrainHTTP
    \/ Shutdown_DrainHTTPS
    \/ Shutdown_Reset

Next ==
    \/ Run_Invoke
    \/ Shutdown_Invoke
    \/ RunStep
    \/ ShutdownStep
    \/ \E c \in Cycles : Task_Step(c)
    \/ Run_ServeFail
    \/ \E c \in Cycles, p \in Protos : Task_ServeFail(c, p)

Spec == Init /\ [][Next]_vars

\* The Go scheduler runs every runnable goroutine: the threads inside Run()
\* and Shutdown() and the listener goroutines keep taking their steps.  The
\* caller's invocations and the listeners' failures are not forced.
FairSpec ==
    /\ Spec
    /\ WF_vars(RunStep)
    /\ WF_vars(ShutdownStep)
    /\ \A c \in Cycles : WF_vars(Task_Step(c))

\* Calls that do not overlap: Run() returns only when a listener fails (no
\* Shutdown() runs while it serves, so nothing closes the server the Run
\* thread itself serves on), and Shutdown() may be called at any other time.
SeqNext ==
    \/ Seq_Run_Invoke
    \/ Seq_Shutdown_Invoke
    \/ Run_MakeQuit
    \/ Run_SetupHTTP
    \/ Run_SetupHTTPS
    \/ Run_Listen
    \/ Run_SelectEnter
    \/ Run_Select
    \/ Run_Return
    \/ ShutdownStep
    \/ \E c \in Cycles : Task_Step(c)
    \/ Run_ServeFail
    \/ \E c \in Cycles, p \in Protos : Task_ServeFail(c, p)

SeqSpec == Init /\ [][SeqNext]_vars

\* ------------------------------------------------------- lifecycle claims
Returned == rpc = "returned"
ReturnedErr == Returned /\ runErr.kind # "nil"
\* The goroutines of the current Run().
CurTasks == IF cycle >= 1 THEN tasks[cycle] ELSE [p \in Protos |-> NoTask]
\* The listeners of the current cycle whose ListenAndServe[TLS] has returned
\* (it always returns a non-nil error).
Terminated ==
    IF BothMode
    THEN {p \in Protos : CurTasks[p].pc \in {"sending", "done"}}
    ELSE {p \in {SingleProto} : rerr.kind # "nil"}
\* The listeners of the current cycle that failed (not by Server.Shutdown).
Failed ==
    IF BothMode
    THEN {p \in Protos : CurTasks[p].err.kind = "listen"}
    ELSE {p \in {SingleProto} : rerr.kind = "listen"}
\* The listeners the current Run() started that are still serving.
StillServing ==
    IF BothMode
    THEN {p \in Protos : CurTasks[p].pc = "serving"}
    ELSE {p \in {SingleProto} : rpc = "serving"}

\* C1: with both addresses configured, a Shutdown() invoked after Run() was
\* invoked and before it returned makes that Run() eventually return, and
\* return nil (stated for the runs in which no listener fails by itself).
C1_ShutdownDuringRunReturnsNil ==
    \A c \in Cycles :
        [](cycle = c /\ BothMode /\ sdWhen = "during"
             => <>(cycle = c /\ (\/ Returned /\ runErr.kind = "nil"
                                 \/ Failed # {})))

\* C2: in every mode, a listener error that occurs after Shutdown() has
\* closed the gate of the cycle never makes Run() return an error, whichever
\* of Run() and Shutdown() runs faster.
C2_LateErrorSuppressed ==
    ReturnedErr => ~runErr.late

\* C3: in every mode, when a listener fails and Shutdown() is not called in
\* that cycle, Run() eventually returns a non-nil error carrying the error of
\* a listener that failed (also when both fail).
C3_FailureReturned ==
    \A c \in Cycles :
        [](cycle = c /\ Failed # {}
             => <>(cycle = c /\ (\/ ShutdownCalled
                                 \/ /\ ReturnedErr
                                    /\ runErr.wrapped
                                    /\ runErr.kind = "listen"
                                    /\ runErr.proto \in Failed)))
\* Both listeners failed, Shutdown() was not called, Run() returned the error
\* of one of them.
C3_Witness ==
    /\ BothMode
    /\ Failed = Protos
    /\ ~ShutdownCalled
    /\ ReturnedErr
    /\ runErr.wrapped
    /\ runErr.proto \in Failed

\* C4: with both listeners configured, Run() has never returned an error
\* while a listener it started is still serving.
C4_NoServingAfterError ==
    BothMode /\ ReturnedErr => StillServing = {}

\* C5: every return of Run() is preceded by a configured listener terminating
\* or by the gate of that Run() being closed.
C5_ReturnHasCause ==
    Returned => \/ Terminated # {}
                \/ GateClosed
\* Run() returned in both mode on the closed gate with both listeners serving,
\* and in a single mode after its listener terminated.
C5_Witness ==
    /\ Returned
    /\ BothMode
    /\ Terminated = {}
    /\ StillServing = Protos
    /\ GateClosed

\* C6: every Run() installs a new, open gate; no gate is closed twice (and no
\* nil gate is closed); while Run() runs, the gate field holds no gate of an
\* earlier Run(); Shutdown() completes leaving no gate installed, and a gate
\* only appears again by line 112 of a Run() making a fresh one.
C6_GateInv ==
    /\ ~panicked
    /\ rpc \in {"l145", "l162", "listen", "serving", "l223", "select", "l150"}
         => quit \in {0, cycle}
    /\ rpc \in {"select", "l150"} => qsel \in {0, cycle}
    /\ Len(gates) <= cycle
C6_GateStep ==
    /\ (rpc = "l112" /\ rpc' = "l145")
         => /\ quit' \notin 1..Len(gates)
            /\ quit' # 0
            /\ gates'[quit'] = "open"
    /\ (spc = "l336" /\ spc' = "done") => quit' = 0
    /\ (quit = 0 /\ quit' # 0) => rpc = "l112" /\ quit' \notin 1..Len(gates)
    /\ \A g \in 1..Len(gates) : gates[g] = "closed" => gates'[g] = "closed"
C6_FreshGatePerCycle ==
    [](C6_GateInv) /\ [][C6_GateStep]_vars
\* The second Run() has installed its own open gate after the first cycle's
\* gate was closed by the first Shutdown().
C6_Witness ==
    /\ cycle = 2
    /\ rpc = "l145"
    /\ spc = "idle"
    /\ gates = <<"closed", "open">>
    /\ quit = 2

\* C17: with both listeners configured, once Run() has returned and a
\* Shutdown() that drained both listeners of that Run() has completed, every
\* listener goroutine of that Run() eventually terminates.
BothDrained ==
    IF BothMode /\ httpListener # 0 /\ httpsListener # 0
    THEN srvShut[httpListener] /\ srvShut[httpsListener]
    ELSE FALSE
C17_TasksTerminate ==
    \A c \in Cycles :
        [](cycle = c /\ Returned /\ spc = "done" /\ BothDrained
             => <>(\A p \in Protos : tasks[c][p].pc = "done"))

\* The fields of hs and how the next statement of Run() (by rpc) and of
\* Shutdown() (by spc) accesses each: "w" writes, "r" reads, "-" neither.
Fields == {"quit", "httpListener", "httpsListener"}
RunAccess(f) ==
    CASE rpc = "l112" /\ f = "quit" -> "w"
      [] rpc = "l145" /\ f = "httpListener" /\ HasHTTP -> "w"
      [] rpc = "l162" /\ f = "httpsListener" /\ HasHTTPS -> "w"
      [] rpc = "listen" /\ f = "httpsListener" /\ HasHTTPS -> "r"
      [] rpc = "listen" /\ f = "httpListener" /\ ~HasHTTPS -> "r"
      [] rpc = "l223" /\ f = "quit" -> "r"
      [] rpc = "l150" /\ f = "quit" /\ rerr.kind # "nil" -> "r"
      [] OTHER -> "-"
ShutdownAccess(f) ==
    CASE spc \in {"l311", "l312"} /\ f = "quit" -> "r"
      [] spc = "l333" /\ f = "httpListener" -> "r"
      [] spc = "l334" /\ f = "httpsListener" -> "r"
      [] spc = "l336" /\ f = "quit" -> "w"
      [] OTHER -> "-"
\* Run() and Shutdown() are both about to access f, one of them writing:
\* nothing in the code orders the two accesses.
Conflict(f) ==
    /\ RunAccess(f) # "-"
    /\ ShutdownAccess(f) # "-"
    /\ "w" \in {RunAccess(f), ShutdownAccess(f)}

\* C18: in every interleaving of Run() with a concurrent Shutdown(), the gate
\* field and the listener fields are never about to be accessed by both at
\* the same time with one of the accesses being a write.
C18_NoConcurrentAccess ==
    \A f \in Fields : ~Conflict(f)

\* C19: within one Shutdown() the gate is closed (line 312) before any drain,
\* the drains happen at lines 333 and 334 in that order, HTTP before HTTPS,
\* a drain that returned an error is followed by the next statement like one
\* that did not, and Shutdown() then completes.
DrainedProtos == [i \in 1..Len(drained) |-> drained[i].proto]
C19_Inv ==
    /\ spc \in {"idle", "l311", "l312", "l333", "done"} => drained = <<>>
    /\ spc = "l334" => DrainedProtos \in {<<>>, <<"HTTP">>}
    /\ spc = "l336" => DrainedProtos \in {<<>>, <<"HTTP">>, <<"HTTPS">>,
                                          <<"HTTP", "HTTPS">>}
C19_Step ==
    /\ (\E g \in 1..Len(gates) : gates[g] = "open" /\ gates'[g] = "closed")
         => spc = "l312" /\ spc' = "l333" /\ drained = <<>>
    /\ (spc = "l311" /\ spc' # spc)
         => spc' = IF quit # 0 THEN "l312" ELSE "l333"
    /\ (srvShut' # srvShut /\ Len(srvShut') = Len(srvShut))
         => spc \in {"l333", "l334"}
    /\ (spc = "l333" /\ spc' # spc)
         => /\ spc' = "l334"
            /\ httpListener # 0
                 => /\ srvShut'[httpListener]
                    /\ Len(drained') = 1 /\ drained'[1].proto = "HTTP"
    /\ (spc = "l334" /\ spc' # spc)
         => /\ spc' = "l336"
            /\ httpsListener # 0
                 => /\ srvShut'[httpsListener]
                    /\ Len(drained') = Len(drained) + 1
                    /\ drained'[Len(drained')].proto = "HTTPS"
    /\ (spc = "l336" /\ spc' # spc) => spc' = "done"
C19_ShutdownOrder ==
    [](C19_Inv) /\ [][C19_Step]_vars
\* The drain of the HTTP listener returned an error and the HTTPS listener
\* was drained after it, the gate having been closed before.
C19_Witness ==
    /\ spc = "l336"
    /\ GateClosed
    /\ Len(drained) = 2
    /\ drained[1] = [proto |-> "HTTP", err |-> TRUE]
    /\ drained[2].proto = "HTTPS"
    /\ srvShut[httpListener] /\ srvShut[httpsListener]

\* C20: in a sequence of calls that do not overlap, a Shutdown() called while
\* no gate is installed (before any Run(), or again after a Shutdown() that
\* completed) closes nothing, so no nil or closed channel is ever closed (no
\* panic), and leaves the gate field nil.
C20_NoGateShutdown ==
    /\ ~panicked
    /\ sdWhen = "nogate"
         => /\ quit = 0
            /\ spc \in {"l311", "l333", "l334", "l336", "done"}
\* A second Shutdown() completed after the first one had closed the gate of
\* the Run() before.
C20_Witness ==
    /\ cycle = 1
    /\ gates = <<"closed">>
    /\ sdWhen = "nogate"
    /\ spc = "done"
    /\ quit = 0
    /\ ~panicked

\* =============================================================== startup
\* The caller validates the configuration and, when it is accepted, Run()
\* builds the security middleware from it (lines 116-143).

\* lines 116-130: sslHost and allowedHosts from the configuration
sslHostOf(c) == IF c.AutoTLSHost = "" THEN c.HTTPSAddr ELSE c.AutoTLSHost
allowedHostsOf(c) == IF c.AutoTLSHost = "" THEN <<>> ELSE <<c.AutoTLSHost>>

\* lines 240-249, configureSecureMiddleware: the options that depend on its
\* arguments (the others are constants).
configureSecureMiddleware_Redirect(host, allowed) ==
    [AllowedHosts |-> allowed, SSLRedirect |-> TRUE, SSLHost |-> host]
configureSecureMiddleware(host, allowed) ==
    [AllowedHosts |-> allowed,
     SSLRedirect |-> IF host = "" THEN FALSE ELSE TRUE,
     SSLHost |-> host]

StartInit ==
    /\ cfg \in AllConfigs
    /\ LifeIdle
    /\ HIdle
    /\ LIdle
    /\ vpc = "validate"
    /\ validateErr = ""
    /\ allowedHosts = <<>>
    /\ sslHost = ""
    /\ secureOpts = [AllowedHosts |-> <<>>, SSLRedirect |-> FALSE,
                     SSLHost |-> ""]

\* lines 61-83: Config.Validate(); a rejected configuration is never run.
Start_Validate ==
    /\ vpc = "validate"
    /\ validateErr' = Validate(cfg)
    /\ vpc' = IF Validate(cfg) = "" THEN "l116" ELSE "rejected"
    /\ UNCHANGED <<lifeVars, handlerVars, limVars, allowedHosts, sslHost, secureOpts>>

\* lines 116-130 of Run()
Start_Hosts ==
    /\ vpc = "l116"
    /\ sslHost' = sslHostOf(cfg)
    /\ allowedHosts' = allowedHostsOf(cfg)
    /\ vpc' = "l142"
    /\ UNCHANGED <<lifeVars, handlerVars, limVars, validateErr, secureOpts>>

\* line 142 of Run(): configureSecureMiddleware(sslHost, allowedHosts)
Start_Secure ==
    /\ vpc = "l142"
    /\ secureOpts' = configureSecureMiddleware(sslHost, allowedHosts)
    /\ vpc' = "l145"
    /\ UNCHANGED <<lifeVars, handlerVars, limVars, validateErr, allowedHosts, sslHost>>

StartNext == Start_Validate \/ Start_Hosts \/ Start_Secure

StartSpec == StartInit /\ [][StartNext]_vars

\* --------------------------------------------------------- startup claims
NonEmpty(x) == x # ""
\* The classes of configurations section 4.1 of the specification rejects.
NoAddress(c) == ~NonEmpty(c.HTTPAddr) /\ ~NonEmpty(c.HTTPSAddr)
NoTLSMode(c) ==
    /\ NonEmpty(c.HTTPSAddr)
    /\ ~NonEmpty(c.AutoTLSHost) /\ ~NonEmpty(c.TLSCert) /\ ~NonEmpty(c.TLSKey)
PartialPair(c) == NonEmpty(c.TLSCert) # NonEmpty(c.TLSKey)
BothTLSModes(c) ==
    NonEmpty(c.AutoTLSHost) /\ (NonEmpty(c.TLSCert) \/ NonEmpty(c.TLSKey))
TLSWithoutHTTPS(c) ==
    /\ ~NonEmpty(c.HTTPSAddr)
    /\ NonEmpty(c.AutoTLSHost) \/ NonEmpty(c.TLSCert) \/ NonEmpty(c.TLSKey)
Rejectable(c) ==
    \/ NoAddress(c)
    \/ NoTLSMode(c)
    \/ PartialPair(c)
    \/ BothTLSModes(c)
    \/ TLSWithoutHTTPS(c)
\* The TLS modes a configuration chooses.
TLSModes(c) ==
    {m \in {"auto"} : NonEmpty(c.AutoTLSHost)}
    \cup {m \in {"explicit"} : NonEmpty(c.TLSCert) /\ NonEmpty(c.TLSKey)}
Validated == vpc \notin {"off", "validate"}

\* C14: over every combination of empty and non-empty httpAddr, httpsAddr,
\* autoTLSHost, tlsCert and tlsKey, Validate returns an error exactly when the
\* configuration is in one of the five classes; an accepted configuration has
\* an address, exactly one TLS mode when httpsAddr is set and no TLS option
\* when it is not; the configuration with only httpAddr set is accepted.
C14_ValidateClasses ==
    Validated
        => /\ (validateErr # "") = Rejectable(cfg)
           /\ validateErr = ""
                => /\ NonEmpty(cfg.HTTPAddr) \/ NonEmpty(cfg.HTTPSAddr)
                   /\ NonEmpty(cfg.HTTPSAddr) => Cardinality(TLSModes(cfg)) = 1
                   /\ ~NonEmpty(cfg.HTTPSAddr)
                        => /\ cfg.AutoTLSHost = ""
                           /\ cfg.TLSCert = ""
                           /\ cfg.TLSKey = ""
                   /\ PartialPair(cfg) = FALSE
           /\ (/\ NonEmpty(cfg.HTTPAddr)
               /\ cfg.HTTPSAddr = "" /\ cfg.AutoTLSHost = ""
               /\ cfg.TLSCert = "" /\ cfg.TLSKey = "")
                => validateErr = ""
\* The configuration with only httpAddr set was validated and accepted.
C14_Witness ==
    /\ Validated
    /\ validateErr = ""
    /\ NonEmpty(cfg.HTTPAddr)
    /\ cfg.HTTPSAddr = ""
    /\ TLSModes(cfg) = {}

\* C16: for every validated configuration the security middleware Run() builds
\* has allowedHosts = <<autoTLSHost>> and sslHost = autoTLSHost when
\* autoTLSHost is set, and no allowed host (any host allowed) and sslHost =
\* httpsAddr otherwise; the redirect is enabled exactly when sslHost is not
\* empty, which is exactly when HTTPS is configured.
C16_SecureMiddleware ==
    (vpc = "l145")
        => /\ validateErr = ""
           /\ IF NonEmpty(cfg.AutoTLSHost)
              THEN /\ secureOpts.AllowedHosts = <<cfg.AutoTLSHost>>
                   /\ secureOpts.SSLHost = cfg.AutoTLSHost
              ELSE /\ secureOpts.AllowedHosts = <<>>
                   /\ secureOpts.SSLHost = cfg.HTTPSAddr
           /\ secureOpts.SSLRedirect = NonEmpty(secureOpts.SSLHost)
           /\ secureOpts.SSLRedirect = NonEmpty(cfg.HTTPSAddr)
\* The middleware was built for a configuration with automatic TLS, and for
\* one listening on HTTP alone the redirect is off.
C16_Witness ==
    /\ vpc = "l145"
    /\ cfg.AutoTLSHost = "www.teller.example"
    /\ cfg.HTTPSAddr = "0.0.0.0:443"
    /\ secureOpts = [AllowedHosts |-> <<"www.teller.example">>,
                     SSLRedirect |-> TRUE,
                     SSLHost |-> "www.teller.example"]

\* ========================================================== rate limiter
\* setupMux (lines 288-304) wraps the handler of each API route in
\* rateLimiter(hs.Config.Throttle, ..): one limiter per route.  This part
\* follows the requests of the clients of one route.

Throttles == [Max : 1..MaxThrottle, Duration : 1..MaxWindow]
\* The clock runs long enough for a full window to pass after a burst.
LimHorizon == 2 * MaxWindow

\* tollbooth.NewLimiter(max, ttl): at most max requests per ttl and client, a
\* token bucket of max tokens that gains one token per ttl.
NewLimiter(max, ttl) == [max |-> max, ttl |-> ttl]
\* lines 306-308, rateLimiter: the limiter of a route
rateLimiter_Swapped(t) == NewLimiter(t.Duration, t.Max)
rateLimiter(t) == NewLimiter(t.Max, t.Duration)

\* A bucket holds tokens in units of 1/ttl: it is full at max * ttl, gains one
\* unit per clock tick, and a request takes ttl units (one token).
BucketFull(lim) == lim.max * lim.ttl
LimitReached(lim, b) == b < lim.ttl
\* The status tollbooth answers a limited request with.
StatusTooManyRequests == 429

LimInit ==
    /\ cfg \in ValidConfigs
    /\ cfg.HTTPSAddr = ""
    /\ LifeIdle
    /\ HIdle
    /\ SIdle
    /\ thr \in Throttles
    /\ lnow = 0
    /\ buckets = [c \in Clients |-> BucketFull(rateLimiter(thr))]
    /\ hist = <<>>

\* The clock advances by one tick.
Lim_Tick ==
    /\ lnow < LimHorizon
    /\ lnow' = lnow + 1
    /\ buckets' = [c \in Clients |->
                    IF buckets[c] < BucketFull(rateLimiter(thr))
                    THEN buckets[c] + 1 ELSE buckets[c]]
    /\ UNCHANGED <<lifeVars, handlerVars, startVars, thr, hist>>

\* tollbooth.LimitFuncHandler(limiter, hd) serves a request of client c: a
\* limited request is answered by the limiter and hd is not called,
\* otherwise a token is taken and hd handles the request.
Lim_Request(c) ==
    /\ Len(hist) < MaxReqs
    /\ IF LimitReached(rateLimiter(thr), buckets[c])
       THEN /\ hist' = Append(hist, [client |-> c, t |-> lnow, ok |-> FALSE,
                                     handled |-> FALSE,
                                     status |-> StatusTooManyRequests])
            /\ UNCHANGED buckets
       ELSE /\ hist' = Append(hist, [client |-> c, t |-> lnow, ok |-> TRUE,
                                     handled |-> TRUE, status |-> 200])
            /\ buckets' = [buckets EXCEPT ![c] = @ - rateLimiter(thr).ttl]
    /\ UNCHANGED <<lifeVars, handlerVars, startVars, thr, lnow>>

LimNext == Lim_Tick \/ \E c \in Clients : Lim_Request(c)

LimSpec == LimInit /\ [][LimNext]_vars

\* ---------------------------------------------------- rate limiter claims
\* The earlier requests of the client of request i.
Prior(i) == {j \in 1..(i - 1) : hist[j].client = hist[i].client}
\* Those of them that were accepted less than a window before request i.
AcceptedWithin(i) ==
    {j \in Prior(i) : hist[j].ok /\ hist[i].t - hist[j].t < thr.Duration}

\* C15: with the limit Max = N per window W on a route, a request reaches the
\* handler exactly when the limiter accepts it, and a rejected one gets the
\* rate-limit status; the first N requests of a client are accepted; a
\* request of a client that had N requests accepted within the last W is
\* rejected; a request of a client that had no request accepted within the
\* last W is accepted.
C15_RateLimit ==
    \A i \in 1..Len(hist) :
        /\ hist[i].handled = hist[i].ok
        /\ ~hist[i].ok => hist[i].status = StatusTooManyRequests
        /\ Cardinality(Prior(i)) < thr.Max => hist[i].ok
        /\ Cardinality(AcceptedWithin(i)) >= thr.Max => ~hist[i].ok
        /\ AcceptedWithin(i) = {} => hist[i].ok
\* With N = 2 and W = 2 a client had two requests accepted, the third one
\* within the window rejected, and a fourth one after the window accepted.
C15_Witness ==
    /\ thr = [Max |-> 2, Duration |-> 2]
    /\ Len(hist) = 4
    /\ \A i \in 1..4 : hist[i].client = hist[1].client
    /\ hist[1].ok /\ hist[2].ok
    /\ ~hist[3].ok /\ ~hist[3].handled
    /\ hist[3].t - hist[1].t < 2
    /\ hist[4].ok
    /\ hist[4].t - hist[2].t >= 2

\* ============================================================== handlers
\* One request is run through BindHandler or StatusHandler, statement by
\* statement, while the clock may advance.

\* ---------------------------------------------------------------- inputs
Methods == {"GET", "POST", "PUT"}
ContentTypes == {"application/json", "application/json; charset=utf-8",
                 "text/plain"}
\* scanner.CoinTypeBTC, the one supported currency
CoinTypeBTC == "BTC"
\* Addresses cipher.DecodeBase58Address accepts, and one it rejects.
GoodAddrs == {"skyA"}
Addrs == GoodAddrs \cup {"", "bad"}
\* A key that is not in the JSON object.
Absent == "<absent>"
\* Request bodies: not JSON, the JSON value null, or a JSON object in which
\* each of the keys skyaddr and coin_type is absent or has a string value.
Bodies ==
    {[kind |-> k, skyaddr |-> Absent, coin_type |-> Absent] :
        k \in {"malformed", "null"}}
    \cup [kind : {"object"}, skyaddr : Addrs \cup {Absent},
          coin_type : {CoinTypeBTC, "", "ETH", Absent}]
NoBody == [kind |-> "malformed", skyaddr |-> Absent, coin_type |-> Absent]

\* What the external service may return (interface of spec section 6).
BtcAddrs == {"btc1", "btc2"}
StatusSeqs == {<<>>, <<"s1">>, <<"s1", "s2">>, <<"s2", "s1">>}
ServiceErrs == {"service failed"}
BindOutcomes ==
    [err : {""}, addr : BtcAddrs, statuses : {<<>>}]
    \cup [err : ServiceErrs, addr : {""}, statuses : {<<>>}]
StatusOutcomes ==
    [err : {""}, addr : {""}, statuses : StatusSeqs]
    \cup [err : ServiceErrs, addr : {""}, statuses : {<<>>}]

\* ------------------------------------------------------- response writer
ErrBody(code, msg) ==
    [kind |-> "error", code |-> code, msg |-> msg, addr |-> "", coin |-> "",
     statuses |-> <<>>]
\* BindResponse{DepositAddress, CoinType} / StatusResponse{Statuses} as JSON
BindBody(addr, coin) ==
    [kind |-> "bind", code |-> 200, msg |-> "", addr |-> addr, coin |-> coin,
     statuses |-> <<>>]
\* Statuses is tagged `json:"statuses,omitempty"`: the key is left out of the
\* JSON object when the sequence is empty (keys: the keys the object has).
StatusBody(sts) ==
    [kind |-> "status", code |-> 200, msg |-> "", addr |-> "", coin |-> "",
     statuses |-> sts, keys |-> IF sts = <<>> THEN {} ELSE {"statuses"}]
\* What a client reads from a status body: json.Decode into a StatusResponse
\* leaves Statuses empty when the key is not there.
StatusesRead(body) ==
    IF "statuses" \in body.keys THEN body.statuses ELSE <<>>

\* http.StatusText
StatusText(code) ==
    CASE code = 400 -> "Bad Request"
      [] code = 403 -> "Forbidden"
      [] code = 405 -> "Method Not Allowed"
      [] code = 415 -> "Unsupported Media Type"
      [] OTHER -> "Internal Server Error"

\* net/http: the first WriteHeader fixes the status, a later one is ignored;
\* every Write appends to the body.
WriteHeader(wr, code) == [wr EXCEPT !.status = IF @ = 0 THEN code ELSE @]
Write(wr, body) == [wr EXCEPT !.bodies = Append(@, body)]

\* httputil.ErrResponse(w, code, msg): writes the status and an error body.
ErrResponse(wr, code, msg) == Write(WriteHeader(wr, code), ErrBody(code, msg))
\* httputil.JSONResponse(w, data): writes data as JSON, status 200 if none
\* was written before.
JSONResponse(wr, body) == Write(WriteHeader(wr, 200), body)

\* lines 550-558: errorResponse logs err and answers with the code alone.
errorResponse(wr, code, err) == ErrResponse(wr, code, StatusText(code))

\* lines 513-526, validMethod
validMethod_Any(method, allowed) == TRUE
validMethod(method, allowed) == method \in allowed
\* line 531: cipher.DecodeBase58Address(skyAddr) returns no error
verifySkycoinAddress(addr) == addr \in GoodAddrs
\* line 500: time.Now().UTC().After(startAt.UTC())
readyToStart_NotBefore(t, s) == t >= s
readyToStart(t, s) == t > s
\* lines 372-374: json.Decode into bindRequest; a key that is absent leaves
\* the field at its zero value "".
DecodeField(v) == IF v = Absent THEN "" ELSE v
Decode(body) ==
    [SkyAddr |-> DecodeField(body.skyaddr),
     CoinType |-> DecodeField(body.coin_type),
     isNil |-> body.kind = "null"]
\* lines 424-427: the success response of BindHandler
BindResponse_Empty(btcAddr) == BindBody("", CoinTypeBTC)
BindResponse(btcAddr) == BindBody(btcAddr, CoinTypeBTC)
\* lines 491-493: the success response of StatusHandler
StatusResponse_Reversed(depositStatuses) ==
    StatusBody([i \in 1..Len(depositStatuses) |->
                    depositStatuses[Len(depositStatuses) + 1 - i]])
StatusResponse(depositStatuses) == StatusBody(depositStatuses)
\* lines 411-416 and 475-480: the answer to an error of the service call
ServiceErrResponse_500(wr, err) == ErrResponse(wr, 500, err)
ServiceErrResponse(wr, err) == ErrResponse(wr, 400, err)

\* ------------------------------------------------------------------ Init
NoBindReq == [SkyAddr |-> "", CoinType |-> "", isNil |-> FALSE]
NoSvcRes == [err |-> "", addr |-> "", statuses |-> <<>>]
EmptyW == [status |-> 0, allow |-> "", bodies |-> <<>>]
Requests ==
    [handler : {"bind"}, method : Methods, ctype : ContentTypes,
     body : Bodies, query : {""}]
    \cup [handler : {"status"}, method : Methods, ctype : {"text/plain"},
          body : {NoBody}, query : Addrs]

HandlerInit ==
    /\ LifeInit
    /\ SIdle
    /\ LIdle
    /\ cfg.HTTPSAddr = ""
    /\ req \in Requests
    /\ hpc = IF req.handler = "bind" THEN "b363" ELSE "s448"
    /\ now \in 0..MaxTime
    /\ startAt \in 0..MaxTime
    /\ bindReq = NoBindReq
    /\ w = EmptyW
    /\ calls = <<>>
    /\ svcRes = NoSvcRes
    /\ tRead = -1

\* A handler step changes only these.
HStep(pc2, w2) ==
    /\ hpc' = pc2
    /\ w' = w2
    /\ UNCHANGED <<lifeVars, startVars, limVars, req, now, startAt>>

\* The clock advances.
Tick ==
    /\ hpc \notin {"off", "done", "panic"}
    /\ now < MaxTime
    /\ now' = now + 1
    /\ UNCHANGED <<lifeVars, startVars, limVars, hpc, req, startAt, bindReq, w, calls, svcRes, tRead>>

\* ----------------------------------------------------------- BindHandler
\* lines 361-365: validMethod(.., {POST}); else Allow header and 405
Bind_ValidMethod ==
    /\ hpc = "b363"
    /\ IF validMethod(req.method, {"POST"})
       THEN HStep("b367", w)
       ELSE HStep("done", errorResponse([w EXCEPT !.allow = "POST"], 405,
                                        "Invalid request method"))
    /\ UNCHANGED <<bindReq, calls, svcRes, tRead>>

\* lines 367-370: Content-Type must be application/json, else 415
Bind_ContentType ==
    /\ hpc = "b367"
    /\ IF req.ctype # "application/json"
       THEN HStep("done", errorResponse(w, 415, "Invalid content type"))
       ELSE HStep("b374", w)
    /\ UNCHANGED <<bindReq, calls, svcRes, tRead>>

\* lines 372-378: decode the body, 400 when it is not JSON
Bind_Decode ==
    /\ hpc = "b374"
    /\ IF req.body.kind = "malformed"
       THEN /\ HStep("done", errorResponse(w, 400, "Invalid json request body"))
            /\ UNCHANGED bindReq
       ELSE /\ HStep("b385", w)
            /\ bindReq' = Decode(req.body)
    /\ UNCHANGED <<calls, svcRes, tRead>>

\* lines 385-388: bindReq.SkyAddr == "" is answered 400.  The body null
\* decodes to a nil *bindRequest, and reading its field panics: net/http
\* recovers the panic and closes the connection, nothing is written.
Bind_SkyAddr ==
    /\ hpc = "b385"
    /\ IF bindReq.isNil
       THEN HStep("panic", w)
       ELSE IF bindReq.SkyAddr = ""
       THEN HStep("done", errorResponse(w, 400, "Missing skyaddr"))
       ELSE HStep("b390", w)
    /\ UNCHANGED <<bindReq, calls, svcRes, tRead>>

\* lines 390-396: the switch on bindReq.CoinType answers 400 for a missing or
\* an unsupported coin_type; no case returns, the handler goes on to line 398.
Bind_CoinType ==
    /\ hpc = "b390"
    /\ IF bindReq.CoinType = CoinTypeBTC
       THEN HStep("b400", w)
       ELSE IF bindReq.CoinType = ""
       THEN HStep("b400", errorResponse(w, 400, "Missing coin_type"))
       ELSE HStep("b400", errorResponse(w, 400, "Invalid coin_type"))
    /\ UNCHANGED <<bindReq, calls, svcRes, tRead>>

\* lines 400-402 and 528-542: verifySkycoinAddress, 400 with the reason
Bind_VerifyAddr ==
    /\ hpc = "b400"
    /\ IF verifySkycoinAddress(bindReq.SkyAddr)
       THEN HStep("b404", w)
       ELSE HStep("done", ErrResponse(w, 400, "Invalid skycoin address"))
    /\ UNCHANGED <<bindReq, calls, svcRes, tRead>>

\* lines 404-406 and 499-511: readyToStart, 403 when now is not after StartAt
Bind_Ready ==
    /\ hpc = "b404"
    /\ tRead' = now
    /\ IF readyToStart(now, startAt)
       THEN HStep("b410", w)
       ELSE HStep("done", ErrResponse(w, 403, "Event starts at"))
    /\ UNCHANGED <<bindReq, calls, svcRes>>

\* lines 408-430: hs.service.BindAddress; its error is answered 400 with the
\* error text, its result with the BindResponse.
Bind_Call ==
    /\ hpc = "b410"
    /\ calls' = Append(calls, <<"BindAddress", bindReq.SkyAddr>>)
    /\ \E r \in BindOutcomes :
        /\ svcRes' = r
        /\ IF r.err # ""
           THEN HStep("done", ServiceErrResponse(w, r.err))
           ELSE HStep("done", JSONResponse(w, BindResponse(r.addr)))
    /\ UNCHANGED <<bindReq, tRead>>

\* --------------------------------------------------------- StatusHandler
\* lines 448-450: validMethod(.., {GET})
Status_ValidMethod ==
    /\ hpc = "s448"
    /\ IF validMethod(req.method, {"GET"})
       THEN HStep("s452", w)
       ELSE HStep("done", errorResponse([w EXCEPT !.allow = "GET"], 405,
                                        "Invalid request method"))
    /\ UNCHANGED <<bindReq, calls, svcRes, tRead>>

\* lines 452-456: the skyaddr query parameter must not be empty
Status_SkyAddr ==
    /\ hpc = "s452"
    /\ IF req.query = ""
       THEN HStep("done", errorResponse(w, 400, "Missing skyaddr"))
       ELSE HStep("s464", w)
    /\ UNCHANGED <<bindReq, calls, svcRes, tRead>>

\* lines 464-466: verifySkycoinAddress
Status_VerifyAddr ==
    /\ hpc = "s464"
    /\ IF verifySkycoinAddress(req.query)
       THEN HStep("s468", w)
       ELSE HStep("done", ErrResponse(w, 400, "Invalid skycoin address"))
    /\ UNCHANGED <<bindReq, calls, svcRes, tRead>>

\* lines 468-470: readyToStart
Status_Ready ==
    /\ hpc = "s468"
    /\ tRead' = now
    /\ IF readyToStart(now, startAt)
       THEN HStep("s474", w)
       ELSE HStep("done", ErrResponse(w, 403, "Event starts at"))
    /\ UNCHANGED <<bindReq, calls, svcRes>>

\* lines 472-496: hs.service.GetDepositStatuses; its error is answered 400
\* with the error text, its result with the StatusResponse.
Status_Call ==
    /\ hpc = "s474"
    /\ calls' = Append(calls, <<"GetDepositStatuses", req.query>>)
    /\ \E r \in StatusOutcomes :
        /\ svcRes' = r
        /\ IF r.err # ""
           THEN HStep("done", ServiceErrResponse(w, r.err))
           ELSE HStep("done", JSONResponse(w, StatusResponse(r.statuses)))
    /\ UNCHANGED <<bindReq, tRead>>

BindHandler ==
    \/ Bind_ValidMethod
    \/ Bind_ContentType
    \/ Bind_Decode
    \/ Bind_SkyAddr
    \/ Bind_CoinType
    \/ Bind_VerifyAddr
    \/ Bind_Ready
    \/ Bind_Call

StatusHandler ==
    \/ Status_ValidMethod
    \/ Status_SkyAddr
    \/ Status_VerifyAddr
    \/ Status_Ready
    \/ Status_Call

HandlerNext == BindHandler \/ StatusHandler \/ Tick

HandlerSpec == HandlerInit /\ [][HandlerNext]_vars

\* --------------------------------------------------------- handler claims
IsBind == req.handler = "bind"
IsStatus == req.handler = "status"
HDone == hpc = "done"
ServiceCalled == calls # <<>>
\* The request passes every input validation of its handler.
BindInputValid ==
    /\ IsBind
    /\ req.method = "POST"
    /\ req.ctype = "application/json"
    /\ req.body.kind = "object"
    /\ req.body.skyaddr \in GoodAddrs
    /\ req.body.coin_type = CoinTypeBTC
StatusInputValid ==
    /\ IsStatus
    /\ req.method = "GET"
    /\ req.query \in GoodAddrs
InputValid == BindInputValid \/ StatusInputValid
\* The bodies of a kind written so far.
BodiesOf(kind) == {i \in 1..Len(w.bodies) : w.bodies[i].kind = kind}
\* The coin_type of the request is missing or not the supported currency.
BadCoinType ==
    /\ IsBind
    /\ req.body.kind = "object"
    /\ req.body.coin_type # CoinTypeBTC

\* C7: BindHandler calls BindAddress only for a POST, application/json
\* request with a decodable body, a non-empty well-formed skyAddr and the
\* supported coin_type, handled after startAt; a request whose coin_type is
\* missing or unsupported is answered 400, never reaches BindAddress and gets
\* no deposit address.
C7_BindOnlyWhenValid ==
    /\ (IsBind /\ ServiceCalled) => (BindInputValid /\ tRead > startAt)
    /\ (HDone /\ BadCoinType /\ req.method = "POST"
          /\ req.ctype = "application/json" /\ bindReq.SkyAddr # "")
         => /\ w.status = 400
            /\ ~ServiceCalled
            /\ BodiesOf("bind") = {}

\* C8: a request that BindHandler or StatusHandler rejects gets exactly one
\* error body: never two error bodies, never an error body and a success
\* body.
C8_OneErrorBody ==
    (HDone /\ BodiesOf("error") # {}) => Len(w.bodies) = 1

\* C9: a request that passes every input validation and is handled at a time
\* not after startAt is answered with 403 (and nothing else), and no request
\* handled at or before startAt reaches the external service.
C9_StartAtGate ==
    /\ (HDone /\ InputValid /\ tRead # -1 /\ tRead <= startAt)
         => /\ w.status = 403
            /\ Len(w.bodies) = 1
            /\ w.bodies[1].kind = "error"
            /\ w.bodies[1].code = 403
    /\ ServiceCalled => tRead > startAt
\* A valid request handled exactly at startAt was answered 403 and the
\* service was not called.
C9_Witness ==
    /\ HDone
    /\ InputValid
    /\ tRead = startAt
    /\ w.status = 403
    /\ ~ServiceCalled

\* C10: a valid Bind request handled after startAt for which BindAddress
\* succeeds is answered 200 with exactly the deposit address BindAddress
\* returned and the currency code that was requested.
C10_BindSuccess ==
    (HDone /\ BindInputValid /\ ServiceCalled /\ svcRes.err = "")
        => /\ w.status = 200
           /\ w.bodies = <<BindBody(svcRes.addr, req.body.coin_type)>>
           /\ calls = <<<<"BindAddress", req.body.skyaddr>>>>
C10_Witness ==
    /\ HDone
    /\ BindInputValid
    /\ tRead > startAt
    /\ svcRes.err = ""
    /\ svcRes.addr = "btc2"
    /\ w.status = 200
    /\ w.bodies = <<BindBody("btc2", CoinTypeBTC)>>

\* C11: every Bind request whose method is not POST is answered 405 with the
\* Allow header POST, and every POST Bind request whose Content-Type is not
\* application/json is answered 415, whatever the body and the time are; in
\* both cases the handler never gets to decoding the body or to BindAddress.
C11_BindMethodAndContentType ==
    /\ (IsBind /\ req.method # "POST")
         => /\ hpc \in {"b363", "done"}
            /\ bindReq = NoBindReq
            /\ ~ServiceCalled
            /\ HDone => w = [status |-> 405, allow |-> "POST",
                             bodies |-> <<ErrBody(405, StatusText(405))>>]
    /\ (IsBind /\ req.method = "POST" /\ req.ctype # "application/json")
         => /\ hpc \in {"b363", "b367", "done"}
            /\ bindReq = NoBindReq
            /\ ~ServiceCalled
            /\ HDone => w = [status |-> 415, allow |-> "",
                             bodies |-> <<ErrBody(415, StatusText(415))>>]
\* A GET Bind request that is valid in everything else, handled after startAt,
\* was answered 405 with Allow: POST.
C11_Witness ==
    /\ HDone
    /\ IsBind
    /\ req.method = "GET"
    /\ req.ctype = "application/json"
    /\ req.body.kind = "object"
    /\ req.body.skyaddr \in GoodAddrs
    /\ req.body.coin_type = CoinTypeBTC
    /\ now > startAt
    /\ w.status = 405
    /\ w.allow = "POST"

\* C12: a GET Status request with a well-formed skyaddr handled after startAt
\* for which GetDepositStatuses succeeds is answered 200 with one body whose
\* statuses are the sequence the service returned, same order, same elements;
\* the empty sequence is answered 200 with the empty list and no error body.
C12_StatusPassThrough ==
    (HDone /\ StatusInputValid /\ ServiceCalled /\ svcRes.err = "")
        => /\ tRead > startAt
           /\ w.status = 200
           /\ Len(w.bodies) = 1
           /\ w.bodies[1].kind = "status"
           /\ StatusesRead(w.bodies[1]) = svcRes.statuses
           /\ calls = <<<<"GetDepositStatuses", req.query>>>>
\* The service returned two statuses in an order and they were answered in
\* that order.
C12_Witness ==
    /\ HDone
    /\ StatusInputValid
    /\ svcRes.err = ""
    /\ svcRes.statuses = <<"s2", "s1">>
    /\ w.status = 200
    /\ StatusesRead(w.bodies[1]) = <<"s2", "s1">>

\* C13: when the service call of BindHandler or StatusHandler returns an
\* error, the response has status 400 and ends with the error body carrying
\* the service's error text (the only body when the request passed every
\* validation); no success body is written and the service was called once.
C13_ServiceErrorIs400 ==
    (HDone /\ ServiceCalled /\ svcRes.err # "")
        => /\ w.status = 400
           /\ w.bodies[Len(w.bodies)] = ErrBody(400, svcRes.err)
           /\ BodiesOf("bind") = {}
           /\ BodiesOf("status") = {}
           /\ Len(calls) = 1
           /\ InputValid => Len(w.bodies) = 1
\* A valid Status request for which the service failed was answered 400 with
\* the service's text.
C13_Witness ==
    /\ HDone
    /\ StatusInputValid
    /\ svcRes.err \in ServiceErrs
    /\ w.status = 400
    /\ w.bodies = <<ErrBody(400, svcRes.err)>>
    /\ Len(calls) = 1

====
